---- MODULE Spec2Model ----
(***************************************************************************)
(* Entity-context collections, the loading-emission wrapper, the tracked   *)
(* action dispatcher and the two todo state containers of                  *)
(* rx-angular-patterns, as state machines.                                 *)
(*                                                                         *)
(* JavaScript values are encoded uniformly so that any two of them can be  *)
(* compared:                                                               *)
(*   undefined        [undefined |-> TRUE]                                 *)
(*   null             [null |-> TRUE]                                      *)
(*   true / false     [bool |-> TRUE] / [bool |-> FALSE]                   *)
(*   "s"              [str |-> "s"]                                        *)
(*   [a, b]           [array |-> <<a, b>>]                                 *)
(*   { k: v, ... }    the function with domain {"k", ...}                  *)
(* A property that is absent from an object is absent from the domain.     *)
(***************************************************************************)
EXTENDS Naturals, Sequences, FiniteSets, TLC

VARIABLES
  mC, mP, mOp, mR,            \* merge algebra: collection, partial, operation, result
  mA,                         \*   the container state an operation was given, if any
  mP2,                        \*   the second partial of a merge in two orders, if any
  eProp, eSrc, eEnd, eSubs,   \* withLoadingEmission: argument, producer, subscriptions
  gState,                     \* GlobalTodosState: the container's state object
  gInflight,                  \*   list requests subscribed and not yet settled
  gCalls, gSettled, gDisp,    \*   history: getTodos() calls, settlements, dispatches
  gSnap, gLast,               \*   history: todos before the running request, last event
  gFailed,                    \*   history: a list request has failed
  gOne, gUpd,                 \*   the id of the running fetchTodo request, the update
                              \*   of the running updateTodo request
  gOneDisp,                   \*   history: dispatches of fetchTodo and updateTodo
  sSvc,                       \* TodosStateService: [state, alive] of its rxState
  sSlots,                     \*   the inner request of each switchMap, if any
  sDisp, sSnap, sLast, sClean, \*  history: dispatches, todos before remove, last event
  hC, hId, hUpd, hOp, hR,     \* entity helpers: collection, id, update, operation, result
  hErr,                       \*   the cause handed to an error setter
  aActs,                      \* tracked actions: per action, its subject, pipeline,
                              \*   pending inner result, loading value, subscriber
  aLog,                       \*   what the last call and its settlements emitted
  aCalls, aLast,              \*   history: calls made, the last call
  aTorn,                      \*   whether the owning container was destroyed
  pName, pKind, pOp, pR       \* property access: action name, accessor, operation, result

varsMerge == <<mC, mP, mOp, mR, mA, mP2>>

varsEmit == <<eProp, eSrc, eEnd, eSubs>>

varsGlobal ==
  <<gState, gInflight, gCalls, gSettled, gDisp, gSnap, gLast, gFailed, gOne, gOneDisp,
    gUpd>>

varsService == <<sSvc, sSlots, sDisp, sSnap, sLast, sClean>>

varsActions == <<aActs, aLog, aCalls, aLast, aTorn>>

varsEntity == <<hC, hId, hUpd, hErr, hOp, hR>>

varsAccess == <<pName, pKind, pOp, pR>>

vars ==
  <<varsMerge, varsEmit, varsGlobal, varsService, varsActions, varsEntity, varsAccess>>

\* what the steps of one component leave alone: the other components
restOfMerge ==
  <<varsEmit, varsGlobal, varsService, varsActions, varsEntity, varsAccess>>

restOfEmit ==
  <<varsMerge, varsGlobal, varsService, varsActions, varsEntity, varsAccess>>

restOfGlobal ==
  <<varsMerge, varsEmit, varsService, varsActions, varsEntity, varsAccess>>

restOfService ==
  <<varsMerge, varsEmit, varsGlobal, varsActions, varsEntity, varsAccess>>

restOfActions ==
  <<varsMerge, varsEmit, varsGlobal, varsService, varsEntity, varsAccess>>

restOfEntity ==
  <<varsMerge, varsEmit, varsGlobal, varsService, varsActions, varsAccess>>

restOfAccess == <<varsMerge, varsEmit, varsGlobal, varsService, varsActions, varsEntity>>

-----------------------------------------------------------------------------
(* JavaScript values *)

Undefined == [undefined |-> TRUE]

Null == [null |-> TRUE]

Bool(b) == [bool |-> b]

Str(s) == [str |-> s]

Arr(s) == [array |-> s]

EmptyObj == [k \in {} |-> TRUE]

Num(n) == [num |-> n]

\* the outcome of an expression that throws (a TypeError)
Thrown == [thrown |-> TRUE]

\* a promise that is already resolved or rejected with w
Promise(kind, w) == [promise |-> kind, with |-> w]

Tags == {"undefined", "null", "bool", "str", "num", "array", "thrown", "promise"}

\* typeof v === 'object'
TypeofObject(v) == v = Null \/ DOMAIN v \cap (Tags \ {"array", "promise"}) = {}

\* typeof v === 'object' && v !== null && !Array.isArray(v)
IsObject(v) == (DOMAIN v) \cap Tags = {}

IsArray(v) == DOMAIN v = {"array"}

IsNullish(v) == v = Undefined \/ v = Null

\* JavaScript truthiness of the values the model uses
Truthy(v) == v \notin {Undefined, Null, Bool(FALSE), Str(""), Num(0)}

\* a || b
Or(a, b) == IF Truthy(a) THEN a ELSE b

\* a ?? b
Coalesce(a, b) == IF IsNullish(a) THEN b ELSE a

\* o?.[k]: undefined for a missing property and for a nullish o
Get(o, k) == IF IsObject(o) /\ k \in DOMAIN o THEN o[k] ELSE Undefined

\* String(n) for the list positions and the numeric identifiers of the model
ToStr(n) ==
  CASE n = 0 -> "0" [] n = 1 -> "1" [] n = 2 -> "2" [] n = 3 -> "3"
    [] n = 4 -> "4" [] n = 5 -> "5" [] OTHER -> "n"

\* String(v), as in a computed property key
StringOf(v) ==
  IF "str" \in DOMAIN v THEN v.str
  ELSE IF "num" \in DOMAIN v THEN ToStr(v.num)
  ELSE IF "bool" \in DOMAIN v THEN (IF v.bool THEN "true" ELSE "false")
  ELSE IF v = Null THEN "null"
  ELSE IF v = Undefined THEN "undefined"
  ELSE "[object Object]"

\* The own enumerable properties that { ...v } copies: those of an object, the
\* positions of an array, none of undefined, null or a boolean.
Props(v) ==
  IF IsObject(v) THEN v
  ELSE IF IsArray(v)
    THEN LET s == v.array
             ks == {ToStr(i - 1) : i \in DOMAIN s}
         IN [k \in ks |-> s[CHOOSE i \in DOMAIN s : ToStr(i - 1) = k]]
    ELSE EmptyObj

\* { ...a, ...b }
Spread(a, b) ==
  LET pa == Props(a)
      pb == Props(b)
  IN [k \in (DOMAIN pa) \cup (DOMAIN pb) |-> IF k \in DOMAIN pb THEN pb[k] ELSE pa[k]]

\* { ...o, [k]: v }
With(o, k, v) == Spread(o, [x \in {k} |-> v])

\* const { [k]: removed, ...remaining } = o
Without(o, k) == [x \in (DOMAIN o) \ {k} |-> o[x]]

-----------------------------------------------------------------------------
(* Merge algebra *)

\* patch of @rx-angular/cdk/transformations: a shallow merge that ignores an
\* update that is no plain object (an array included).
patch(object, upd) ==
  LET update == IF IsObject(upd) THEN upd ELSE EmptyObj
  IN IF ~IsObject(object) /\ IsObject(upd) THEN update
     ELSE IF ~IsObject(object) /\ ~IsObject(upd) THEN upd
     ELSE Spread(object, update)

createInitialContext == [value |-> EmptyObj, loading |-> Bool(FALSE)]

\* a merge whose entity mapping is the partial's alone
mergeEntityContextReplacing(oldState, newPartial) ==
  LET resultState == patch(Or(oldState, createInitialContext), newPartial)
  IN With(resultState, "value", Or(Get(resultState, "value"), EmptyObj))

mergeEntityContext(oldState, newPartial) ==
  LET resultState == patch(Or(oldState, createInitialContext), newPartial)
      value == patch(Or(Get(oldState, "value"), EmptyObj),
                     Or(Get(resultState, "value"), EmptyObj))
  IN With(resultState, "value", value)

\* The merge that replaces the entity mapping by the update's.
mergeCollectionStateReplacing(state, update) ==
  With(Spread(state, update), "value", Or(Get(update, "value"), Get(state, "value")))

mergeCollectionState(state, update) ==
  LET baseState == Spread(state, update)
      uv == Get(update, "value")
      sv == Get(state, "value")
      merged == [key \in DOMAIN Props(uv) |->
                   With(Spread(Get(sv, key), Props(uv)[key]), "value",
                        Spread(Or(Get(Get(sv, key), "value"), EmptyObj),
                               Or(Get(Props(uv)[key], "value"), EmptyObj)))]
  IN IF ~Truthy(uv) THEN baseState
     ELSE With(baseState, "value", Spread(sv, merged))

\* { ...currentState, ...update, value: update.value ?? currentState.value }
mergeContextState(currentState, update) ==
  With(Spread(currentState, update), "value",
       Coalesce(Get(update, "value"), Get(currentState, "value")))

\* the merge without its type guard
mergeEntityContextStateUnguarded(state, newPartial, key) ==
  mergeEntityContext(Get(state, key), newPartial)

\* the variant that guards state[key]:
\* if (!state[key] || typeof state[key] !== 'object') throw new Error(...)
mergeEntityContextStateGuarded(state, newPartial, key) ==
  IF ~Truthy(Get(state, key)) \/ ~TypeofObject(Get(state, key)) THEN Thrown
  ELSE mergeEntityContext(Get(state, key), newPartial)

-----------------------------------------------------------------------------
(* Inputs of the merge algebra *)

NumKeys == 2

Keys == {ToStr(i) : i \in 1..NumKeys}

Names == {"A", "B"}

Todo(k, n) == [id |-> Str(k), name |-> Str(n), done |-> Bool(FALSE)]

Entry(v, l, e) == [value |-> v, loading |-> Bool(l), error |-> e]

EntriesOf(k) ==
  { Entry(Todo(k, "A"), FALSE, Null),
    Entry(Todo(k, "B"), TRUE, Null),
    Entry(Null, FALSE, Str("boom")) }

EntityMaps ==
  UNION { { m \in [ks -> UNION {EntriesOf(k) : k \in ks}] :
              \A k \in ks : m[k] \in EntriesOf(k) } : ks \in SUBSET Keys }

Collections ==
  { [value |-> m, loading |-> Bool(f[1]), error |-> f[2]] :
      m \in EntityMaps,
      f \in {<<FALSE, Null>>, <<TRUE, Null>>, <<FALSE, Str("boom")>>} }

PartialFlags ==
  { EmptyObj,
    [loading |-> Bool(TRUE)],
    [loading |-> Bool(FALSE)],
    [loading |-> Bool(FALSE), error |-> Null],
    [loading |-> Bool(FALSE), error |-> Str("boom")] }

TodoList == Arr(<<Todo("1", "A"), Todo("2", "B")>>)

\* entity mappings whose entry names only some of an entry's fields
PartialEntryMaps ==
  { [x \in {k} |-> e] :
      k \in Keys, e \in {[loading |-> Bool(FALSE)], [value |-> [done |-> Bool(TRUE)]]} }

Partials ==
  PartialFlags
    \cup { With(f, "value", m) :
             f \in PartialFlags, m \in EntityMaps \cup PartialEntryMaps \cup {TodoList} }

\* container states: todos is the collection, is missing, or is no object
StatesOf(c) ==
  { [todos |-> c], EmptyObj, [todos |-> Null], [todos |-> Str("x")],
    [todos |-> Str("")], [todos |-> Num(1)], [todos |-> Bool(TRUE)] }

IdleMerge ==
  /\ mC = Undefined
  /\ mP = Undefined
  /\ mOp = "idle"
  /\ mR = Undefined
  /\ mA = Undefined
  /\ mP2 = Undefined

InitMerge ==
  /\ mC \in Collections
  /\ mP \in Partials
  /\ mOp = "none"
  /\ mR = Undefined
  /\ mA = Undefined
  /\ mP2 = Undefined

ApplyMergeEntityContext ==
  /\ mOp = "none"
  /\ mOp' = "mergeEntityContext"
  /\ mR' = mergeEntityContext(mC, mP)
  /\ UNCHANGED <<mC, mP, mA, mP2, restOfMerge>>

ApplyMergeCollectionState ==
  /\ mOp = "none"
  /\ mOp' = "mergeCollectionState"
  /\ mR' = mergeCollectionState(mC, mP)
  /\ UNCHANGED <<mC, mP, mA, mP2, restOfMerge>>

ApplyMergeContextState ==
  /\ mOp = "none"
  /\ mOp' = "mergeContextState"
  /\ mR' = mergeContextState(mC, mP)
  /\ UNCHANGED <<mC, mP, mA, mP2, restOfMerge>>

ApplyMergeEntityContextState(state) ==
  /\ mOp = "none"
  /\ mOp' = "mergeEntityContextState"
  /\ mA' = state
  /\ mR' = mergeEntityContextStateGuarded(state, mP, "todos")
  /\ UNCHANGED <<mC, mP, mP2, restOfMerge>>

\* two partials merged into the collection one after the other, in both orders
ApplyMergeBothOrders(second) ==
  /\ mOp = "none"
  /\ mOp' = "bothOrders"
  /\ mP2' = second
  /\ mR' = [first |-> mergeEntityContext(mergeEntityContext(mC, mP), second),
            second |-> mergeEntityContext(mergeEntityContext(mC, second), mP)]
  /\ UNCHANGED <<mC, mP, mA, restOfMerge>>

NextMerge ==
  \/ \E second \in Partials : ApplyMergeBothOrders(second)
  \/ ApplyMergeEntityContext
  \/ ApplyMergeCollectionState
  \/ ApplyMergeContextState
  \/ \E state \in StatesOf(mC) : ApplyMergeEntityContextState(state)

-----------------------------------------------------------------------------
(* withLoadingEmission: startWith(start), endWith(end) around a producer *)

defaultLoadingProp == Str("loading")

\* const _property = property ?? defaultLoadingProp
LoadingProperty(property) == Coalesce(property, defaultLoadingProp)

StartMarker(property) == [k \in {LoadingProperty(property).str} |-> Bool(TRUE)]

EndMarker(property) == [k \in {LoadingProperty(property).str} |-> Bool(FALSE)]

NextN(v) == [kind |-> "next", value |-> v]

CompleteN == [kind |-> "complete"]

ErrorN(e) == [kind |-> "error", error |-> e]

\* startWith(start): what a subscriber receives when it subscribes
OnSubscribe(property) == <<NextN(StartMarker(property))>>

\* endWith(end) on the producer's completion, without the end marker
OnProducerCompleteNoEnd(property) == <<CompleteN>>

\* endWith(end): what a subscriber receives when the producer completes
OnProducerComplete(property) == <<NextN(EndMarker(property)), CompleteN>>

\* startWith and endWith forward the producer's error as it is
OnProducerError(property, e) == <<ErrorN(e)>>

MaxEmit == 2

NumSubs == 2

Subs == 1..NumSubs

EmitValues == {Str("x"), Str("y")}

Producers == UNION {[1..n -> EmitValues] : n \in 0..MaxEmit}

IdleSub == [st |-> "idle", pos |-> 0, out |-> <<>>]

IdleEmit ==
  /\ eProp = Undefined
  /\ eSrc = <<>>
  /\ eEnd = "idle"
  /\ eSubs = <<>>

InitEmit ==
  /\ eProp \in {Undefined, Str("loading"), Str("fetching")}
  /\ eSrc \in Producers
  /\ eEnd \in {"complete", "error"}
  /\ eSubs = [i \in Subs |-> IdleSub]

\* observable.subscribe(): the start marker arrives synchronously
Subscribe(i) ==
  /\ eSubs[i].st = "idle"
  /\ eSubs' = [eSubs EXCEPT ![i] = [st |-> "active", pos |-> 0, out |-> OnSubscribe(eProp)]]
  /\ UNCHANGED <<eProp, eSrc, eEnd, restOfEmit>>

ProducerNext(i) ==
  /\ eSubs[i].st = "active"
  /\ eSubs[i].pos < Len(eSrc)
  /\ eSubs' = [eSubs EXCEPT ![i].pos = @ + 1,
                            ![i].out = Append(@, NextN(eSrc[eSubs[i].pos + 1]))]
  /\ UNCHANGED <<eProp, eSrc, eEnd, restOfEmit>>

ProducerComplete(i) ==
  /\ eSubs[i].st = "active"
  /\ eSubs[i].pos = Len(eSrc)
  /\ eEnd = "complete"
  /\ eSubs' = [eSubs EXCEPT ![i].st = "completed",
                            ![i].out = @ \o OnProducerComplete(eProp)]
  /\ UNCHANGED <<eProp, eSrc, eEnd, restOfEmit>>

ProducerError(i) ==
  /\ eSubs[i].st = "active"
  /\ eSubs[i].pos = Len(eSrc)
  /\ eEnd = "error"
  /\ eSubs' = [eSubs EXCEPT ![i].st = "errored",
                            ![i].out = @ \o OnProducerError(eProp, Str("boom"))]
  /\ UNCHANGED <<eProp, eSrc, eEnd, restOfEmit>>

NextEmit ==
  \E i \in Subs :
    \/ Subscribe(i)
    \/ ProducerNext(i)
    \/ ProducerComplete(i)
    \/ ProducerError(i)

-----------------------------------------------------------------------------
(* GlobalTodosState: rxState with connect('todos', fetchTodos$ ...) *)

withContextResponse(value, id) ==
  [value |-> IF Truthy(id)
               THEN [k \in {id.str} |->
                       [value |-> value, loading |-> Bool(FALSE), error |-> Null]]
               ELSE value,
   loading |-> Bool(FALSE),
   error |-> Null]

withContextError(error, id) ==
  [value |-> IF Truthy(id)
               THEN [k \in {id.str} |->
                       [value |-> Null, loading |-> Bool(FALSE),
                        error |-> Get(error, "message")]]
               ELSE EmptyObj,
   loading |-> Bool(FALSE),
   error |-> Or(Get(error, "message"), Str("An error occurred"))]

mergeEntityContextState(state, newPartial, key) ==
  Spread(state,
         [value |-> mergeEntityContext(Get(state, key), newPartial).value,
          loading |-> Get(newPartial, "loading"),
          error |-> Get(newPartial, "error")])

\* The copy of the container state that { ...state } leaves inside the new
\* collection (todos.todos) is never read and would nest one level deeper with
\* every emission: the model keeps that the property is there, not its content.
Elided == [elided |-> TRUE]

Elide(slice) == IF "todos" \in DOMAIN slice THEN With(slice, "todos", Elided) ELSE slice

\* rxState connect(key, slice$, projectFn): state[key] = projectFn(state, value)
Connect(state, key, slice) == With(state, key, Elide(slice))

\* (state, newPartial) => mergeEntityContextState(state, newPartial, 'todos')
ProjectFetchTodos(state, emission) ==
  Connect(state, "todos",
          mergeEntityContextState(state, withContextResponse(emission, Undefined), "todos"))

\* catchError((error) => of(withContextError(error))), then the same projection
ProjectFetchTodosError(state, error) ==
  Connect(state, "todos", mergeEntityContextState(state, withContextError(error, Undefined), "todos"))

\* connect('todos', ..., mergeEntityContextState): the projection is called with
\* the state and the emission only, so that its key is undefined
ProjectFetchTodo(state, emission, todoId) ==
  Connect(state, "todos",
          mergeEntityContextState(state, withContextResponse(emission, todoId),
                                  StringOf(Undefined)))

\* catchError((error) => of(withContextError(error, todoId))), then the same projection
ProjectFetchTodoError(state, error, todoId) ==
  Connect(state, "todos",
          mergeEntityContextState(state, withContextError(error, todoId), StringOf(Undefined)))

\* map((todo) => withContextResponse(todo, todo.id)), then the projection
\* connect was given: mergeEntityContextState, called without a key
ProjectUpdateTodo(state, emission) ==
  Connect(state, "todos",
          mergeEntityContextState(state, withContextResponse(emission, Get(emission, "id")),
                                  StringOf(Undefined)))

\* catchError((error) => of(withContextError(error, todoUpdate.id)))
ProjectUpdateTodoError(state, error, todoUpdate) ==
  Connect(state, "todos",
          mergeEntityContextState(state, withContextError(error, Get(todoUpdate, "id")),
                                  StringOf(Undefined)))

\* a higher-order map that subscribes to every inner request
mergeMapAccepts(active) == TRUE

\* exhaustMap: a source value is taken only while no inner request is active
exhaustMapAccepts(active) == ~active

MaxDispatch == 3

ListsOfLen(n) ==
  { Arr(l) : l \in { q \in [1..n -> {Todo(k, nm) : k \in Keys, nm \in Names}] :
                       \A i, j \in 1..n : i # j => q[i].id # q[j].id } }

TodoLists == UNION {ListsOfLen(n) : n \in 0..NumKeys}

HttpErrors == {[message |-> Str("boom")], [message |-> Str("")]}

IdleGlobal ==
  /\ gState = EmptyObj
  /\ gInflight = 0
  /\ gCalls = 0
  /\ gSettled = 0
  /\ gDisp = MaxDispatch
  /\ gSnap = Undefined
  /\ gLast = [op |-> "idle"]
  /\ gFailed = FALSE
  /\ gOne = Undefined
  /\ gOneDisp = MaxDispatch
  /\ gUpd = Undefined

InitGlobal ==
  /\ gState = EmptyObj
  /\ gInflight = 0
  /\ gCalls = 0
  /\ gSettled = 0
  /\ gDisp = 0
  /\ gSnap = Undefined
  /\ gLast = [op |-> "init"]
  /\ gFailed = FALSE
  /\ gOne = Undefined
  /\ gOneDisp = 0
  /\ gUpd = Undefined

\* this.fetchTodos(): the request starts, and its start marker is projected, at once
DispatchFetchTodosTaken ==
  /\ gDisp < MaxDispatch
  /\ exhaustMapAccepts(gInflight > 0)
  /\ gDisp' = gDisp + 1
  /\ gCalls' = gCalls + 1
  /\ gInflight' = gInflight + 1
  /\ gSnap' = Get(gState, "todos")
  /\ gState' = ProjectFetchTodos(gState, StartMarker(Undefined))
  /\ gLast' = [op |-> "fetchTodos"]
  /\ UNCHANGED <<gSettled, gFailed, gOne, gOneDisp, gUpd, restOfGlobal>>

\* this.fetchTodos() while the inner request is active
DispatchFetchTodosDropped ==
  /\ gDisp < MaxDispatch
  /\ ~exhaustMapAccepts(gInflight > 0)
  /\ gDisp' = gDisp + 1
  /\ gLast' = [op |-> "fetchTodosDropped"]
  /\ UNCHANGED <<gState, gInflight, gCalls, gSettled, gSnap, gFailed, gOne, gOneDisp, gUpd, restOfGlobal>>

\* getTodos() answers: the list, then the end marker, are projected
ResolveFetchTodos(list) ==
  /\ gInflight > 0
  /\ gState' = ProjectFetchTodos(ProjectFetchTodos(gState, list), EndMarker(Undefined))
  /\ gInflight' = gInflight - 1
  /\ gSettled' = gSettled + 1
  /\ gLast' = [op |-> "fetchTodosResolved", list |-> list.array]
  /\ UNCHANGED <<gCalls, gDisp, gSnap, gFailed, gOne, gOneDisp, gUpd, restOfGlobal>>

\* getTodos() fails: catchError replaces the failure by one error partial
RejectFetchTodos(error) ==
  /\ gInflight > 0
  /\ gState' = ProjectFetchTodosError(gState, error)
  /\ gInflight' = gInflight - 1
  /\ gSettled' = gSettled + 1
  /\ gLast' = [op |-> "fetchTodosRejected", message |-> error.message]
  /\ gFailed' = TRUE
  /\ UNCHANGED <<gCalls, gDisp, gSnap, gOne, gOneDisp, gUpd, restOfGlobal>>

\* this.fetchTodo(id): the request starts and its start marker is projected
DispatchFetchTodoTaken(id) ==
  /\ gOneDisp < MaxDispatch
  /\ exhaustMapAccepts(gOne # Undefined)
  /\ gOneDisp' = gOneDisp + 1
  /\ gOne' = Str(id)
  /\ gState' = ProjectFetchTodo(gState, StartMarker(Undefined), Str(id))
  /\ gLast' = [op |-> "fetchTodo", id |-> id]
  /\ UNCHANGED <<gInflight, gCalls, gSettled, gDisp, gSnap, gFailed, gUpd, restOfGlobal>>

\* this.fetchTodo(id) while the inner request is active
DispatchFetchTodoDropped(id) ==
  /\ gOneDisp < MaxDispatch
  /\ ~exhaustMapAccepts(gOne # Undefined)
  /\ gOneDisp' = gOneDisp + 1
  /\ gLast' = [op |-> "fetchTodoDropped", id |-> id]
  /\ UNCHANGED <<gState, gInflight, gCalls, gSettled, gDisp, gSnap, gFailed, gOne,
                 gUpd, restOfGlobal>>

\* getTodoById(id) answers: the todo, then the end marker, are projected
ResolveFetchTodo(name) ==
  /\ gOne # Undefined
  /\ gState' = ProjectFetchTodo(ProjectFetchTodo(gState, Todo(gOne.str, name), gOne),
                                EndMarker(Undefined), gOne)
  /\ gOne' = Undefined
  /\ gLast' = [op |-> "fetchTodoResolved", id |-> gOne.str, todo |-> Todo(gOne.str, name)]
  /\ UNCHANGED <<gInflight, gCalls, gSettled, gDisp, gSnap, gFailed, gOneDisp, gUpd, restOfGlobal>>

\* getTodoById(id) fails: catchError replaces the failure by one error partial
RejectFetchTodo(error) ==
  /\ gOne # Undefined
  /\ gState' = ProjectFetchTodoError(gState, error, gOne)
  /\ gOne' = Undefined
  /\ gLast' = [op |-> "fetchTodoRejected", id |-> gOne.str, message |-> error.message]
  /\ UNCHANGED <<gInflight, gCalls, gSettled, gDisp, gSnap, gFailed, gOneDisp, gUpd, restOfGlobal>>

\* the todo updateTodo(todoUpdate) answers with
Updated(todoUpdate) == Spread(Todo(todoUpdate.id.str, "A"), todoUpdate)

\* this.updateTodo(todoUpdate): the request starts and its start marker is projected
DispatchUpdateTodoTaken(id) ==
  /\ gOneDisp < MaxDispatch
  /\ exhaustMapAccepts(gUpd # Undefined)
  /\ gOneDisp' = gOneDisp + 1
  /\ gUpd' = [id |-> Str(id), done |-> Bool(TRUE)]
  /\ gState' = ProjectUpdateTodo(gState, StartMarker(Undefined))
  /\ gLast' = [op |-> "updateTodo", id |-> id]
  /\ UNCHANGED <<gInflight, gCalls, gSettled, gDisp, gSnap, gFailed, gOne, restOfGlobal>>

\* this.updateTodo(todoUpdate) while the inner request is active
DispatchUpdateTodoDropped(id) ==
  /\ gOneDisp < MaxDispatch
  /\ ~exhaustMapAccepts(gUpd # Undefined)
  /\ gOneDisp' = gOneDisp + 1
  /\ gLast' = [op |-> "updateTodoDropped", id |-> id]
  /\ UNCHANGED <<gState, gInflight, gCalls, gSettled, gDisp, gSnap, gFailed, gOne, gUpd,
                 restOfGlobal>>

\* updateTodo(todoUpdate) answers: the todo, then the end marker, are projected
ResolveUpdateTodo ==
  /\ gUpd # Undefined
  /\ gState' = ProjectUpdateTodo(ProjectUpdateTodo(gState, Updated(gUpd)),
                                 EndMarker(Undefined))
  /\ gUpd' = Undefined
  /\ gLast' = [op |-> "updateTodoResolved", id |-> gUpd.id.str, todo |-> Updated(gUpd)]
  /\ UNCHANGED <<gInflight, gCalls, gSettled, gDisp, gSnap, gFailed, gOne, gOneDisp,
                 restOfGlobal>>

\* updateTodo(todoUpdate) fails: catchError replaces the failure by one error partial
RejectUpdateTodo(error) ==
  /\ gUpd # Undefined
  /\ gState' = ProjectUpdateTodoError(gState, error, gUpd)
  /\ gUpd' = Undefined
  /\ gLast' = [op |-> "updateTodoRejected", id |-> gUpd.id.str, message |-> error.message]
  /\ UNCHANGED <<gInflight, gCalls, gSettled, gDisp, gSnap, gFailed, gOne, gOneDisp,
                 restOfGlobal>>

NextGlobal ==
  \/ \E id \in Keys : DispatchUpdateTodoTaken(id)
  \/ \E id \in Keys : DispatchUpdateTodoDropped(id)
  \/ ResolveUpdateTodo
  \/ \E error \in HttpErrors : RejectUpdateTodo(error)
  \/ DispatchFetchTodosTaken
  \/ DispatchFetchTodosDropped
  \/ \E list \in TodoLists : ResolveFetchTodos(list)
  \/ \E error \in HttpErrors : RejectFetchTodos(error)
  \/ \E id \in Keys : DispatchFetchTodoTaken(id)
  \/ \E id \in Keys : DispatchFetchTodoDropped(id)
  \/ \E name \in Names : ResolveFetchTodo(name)
  \/ \E error \in HttpErrors : RejectFetchTodo(error)

-----------------------------------------------------------------------------
(* Entity helpers of entity-context.utils.ts *)

createInitialEntityState ==
  [value |-> EmptyObj, loading |-> Bool(FALSE), error |-> Bool(FALSE)]

\* an update that puts the update in the place of the entity
updateEntityReplacing(state, entityId, update) ==
  IF IsNullish(Get(state, "value")) \/ IsNullish(Get(state.value, StringOf(entityId))) THEN Thrown
  ELSE With(state, "value",
            With(state.value, StringOf(entityId),
                 With(Get(state.value, StringOf(entityId)), "value", update)))

\* state.value[entityId].value is read: a TypeError without that entry
updateEntity(state, entityId, update) ==
  LET k == StringOf(entityId)
      entry == Get(state.value, k)
  IN IF IsNullish(Get(state, "value")) \/ IsNullish(entry) THEN Thrown
     ELSE With(state, "value",
               With(state.value, k,
                    With(entry, "value", Spread(Get(entry, "value"), update))))

\* a removal that empties the mapping
removeEntityAll(state, entityId) ==
  IF IsNullish(Get(state, "value")) THEN Thrown ELSE With(state, "value", EmptyObj)

\* a removal that leaves the mapping as it is
removeEntityKeeping(state, entityId) ==
  IF IsNullish(Get(state, "value")) THEN Thrown ELSE state

\* const { [entityId]: removed, ...remaining } = state.value
removeEntity(state, entityId) ==
  IF IsNullish(Get(state, "value")) THEN Thrown
  ELSE With(state, "value", Without(Props(state.value), StringOf(entityId)))

setEntityError(state, entityId) ==
  LET k == StringOf(entityId)
  IN IF IsNullish(Get(state, "value")) THEN Thrown
     ELSE With(state, "value",
               With(state.value, k,
                    Spread(Get(state.value, k),
                           [error |-> Bool(TRUE), loading |-> Bool(FALSE)])))

\* { ...state, error: true, loading: false }
setCollectionError(state) == Spread(state, [error |-> Bool(TRUE), loading |-> Bool(FALSE)])

\* { ...state, loading: true, error: false }
setCollectionLoading(state) == Spread(state, [loading |-> Bool(TRUE), error |-> Bool(FALSE)])

\* an entry made from scratch: { loading: true, error: false }
setEntityLoadingFresh(state, entityId) ==
  IF IsNullish(Get(state, "value")) THEN Thrown
  ELSE With(state, "value",
            With(state.value, StringOf(entityId),
                 [loading |-> Bool(TRUE), error |-> Bool(FALSE)]))

\* [entityId]: { ...state.value[entityId], loading: true, error: false }
setEntityLoading(state, entityId) ==
  IF IsNullish(Get(state, "value")) THEN Thrown
  ELSE With(state, "value",
            With(state.value, StringOf(entityId),
                 Spread(Get(state.value, StringOf(entityId)),
                        [loading |-> Bool(TRUE), error |-> Bool(FALSE)])))

\* entities.reduce(...): a later entity with the same key replaces an earlier one
updateCollection(entities, idKey) ==
  LET s == entities.array
      ks == {StringOf(Get(s[i], idKey)) : i \in DOMAIN s}
      last(k) == CHOOSE i \in DOMAIN s :
                   /\ StringOf(Get(s[i], idKey)) = k
                   /\ \A j \in DOMAIN s : StringOf(Get(s[j], idKey)) = k => j <= i
  IN [k \in ks |-> [value |-> s[last(k)], loading |-> Bool(FALSE), error |-> Bool(FALSE)]]

\* map((entities) => ({ value: updateCollection(...), error: false }))
TrackedCollection(entities) ==
  [value |-> updateCollection(IF IsArray(entities) THEN entities ELSE Arr(<<entities>>), "id"),
   error |-> Bool(FALSE)]

-----------------------------------------------------------------------------
(* TodosStateService (todos2.state.ts) *)

\* rxState accumulation: a projection that throws ends it, and with it every
\* connected pipeline; a slice replaces the properties it names
Accumulate(svc, todos) ==
  IF ~svc.alive THEN svc
  ELSE IF todos = Thrown THEN [svc EXCEPT !.alive = FALSE]
  ELSE [svc EXCEPT !.state = With(@, "todos", todos)]

TodosIn(svc) == Get(svc.state, "todos")

\* (_, todos) => ({ todos }) and (_, todos) => todos: the emission becomes todos
ProjectLoadAll(svc, emission) == Accumulate(svc, emission)

\* set((state) => ({ todos: { ...state.todos, error: true, loading: false } }))
ProjectLoadAllError(svc) ==
  Accumulate(svc, Spread(TodosIn(svc), [error |-> Bool(TRUE), loading |-> Bool(FALSE)]))

\* (state, { todo, todoId }) => updateEntity(state.todos, todoId, todo)
ProjectLoadOne(svc, todoId, emission) ==
  Accumulate(svc, updateEntity(TodosIn(svc), todoId, emission))

\* set((state) => ({ todos: setEntityError(state.todos, todoId) }))
ProjectEntityError(svc, todoId) == Accumulate(svc, setEntityError(TodosIn(svc), todoId))

\* updateEntity(state.todos, todoId, { completed: !state.todos.value[todoId].value.completed })
ProjectToggle(svc, todoId) ==
  LET entry == Get(Get(TodosIn(svc), "value"), StringOf(todoId))
      v == Get(entry, "value")
  IN IF IsNullish(v) THEN Accumulate(svc, Thrown)
     ELSE Accumulate(svc, updateEntity(TodosIn(svc), todoId,
                                       [completed |-> Bool(~Truthy(Get(v, "completed")))]))

\* (state, todoId) => ({ todos: removeEntity(state.todos, todoId) })
ProjectRemove(svc, todoId) == Accumulate(svc, removeEntity(TodosIn(svc), todoId))

Ids == 1..NumKeys

ServiceTodo(id, c) == [id |-> Num(id), title |-> Str("t"), completed |-> Bool(c)]

ServiceLists ==
  { Arr(l) : l \in UNION {[1..n -> {ServiceTodo(id, FALSE) : id \in Ids}] : n \in 0..NumKeys} }

SlotNames == {"loadAllA", "loadAllB", "loadOneA", "loadOneB", "remove"}

NoSlots == [n \in SlotNames |-> Undefined]

\* the pipelines are unsubscribed when the accumulation has ended
SlotsOf(svc, slots) == IF svc.alive THEN slots ELSE NoSlots

IdleService ==
  /\ sSvc = [state |-> EmptyObj, alive |-> FALSE]
  /\ sSlots = NoSlots
  /\ sDisp = MaxDispatch
  /\ sSnap = Undefined
  /\ sLast = [op |-> "idle"]
  /\ sClean = FALSE

InitService ==
  /\ sSvc = [state |-> [todos |-> createInitialEntityState], alive |-> TRUE]
  /\ sSlots = NoSlots
  /\ sDisp = 0
  /\ sSnap = Undefined
  /\ sLast = [op |-> "init"]
  /\ sClean = FALSE

\* this.loadAll(): both connected pipelines switch to a new request and project
\* its start marker
DispatchLoadAll ==
  /\ sSvc.alive /\ sDisp < MaxDispatch
  /\ LET svc == ProjectLoadAll(ProjectLoadAll(sSvc, StartMarker(Undefined)),
                               StartMarker(Undefined))
     IN /\ sSvc' = svc
        /\ sSlots' = SlotsOf(svc, [sSlots EXCEPT !["loadAllA"] = Bool(TRUE),
                                                 !["loadAllB"] = Bool(TRUE)])
  /\ sDisp' = sDisp + 1
  /\ sLast' = [op |-> "loadAll"]
  /\ sClean' = FALSE
  /\ UNCHANGED <<sSnap, restOfService>>

ResolveLoadAll(slot, list) ==
  /\ sSvc.alive /\ slot \in {"loadAllA", "loadAllB"} /\ sSlots[slot] # Undefined
  /\ LET svc == ProjectLoadAll(ProjectLoadAll(sSvc, TrackedCollection(list)),
                               EndMarker(Undefined))
     IN /\ sSvc' = svc
        /\ sSlots' = SlotsOf(svc, [sSlots EXCEPT ![slot] = Undefined])
  /\ sLast' = [op |-> "loadAllResolved"]
  /\ sClean' = FALSE
  /\ UNCHANGED <<sDisp, sSnap, restOfService>>

RejectLoadAll(slot) ==
  /\ sSvc.alive /\ slot \in {"loadAllA", "loadAllB"} /\ sSlots[slot] # Undefined
  /\ LET svc == ProjectLoadAllError(sSvc)
     IN /\ sSvc' = svc
        /\ sSlots' = SlotsOf(svc, [sSlots EXCEPT ![slot] = Undefined])
  /\ sLast' = [op |-> "loadAllRejected"]
  /\ sClean' = FALSE
  /\ UNCHANGED <<sDisp, sSnap, restOfService>>

\* this.loadOne(id): the start marker is projected as the entity's update
DispatchLoadOne(id) ==
  /\ sSvc.alive /\ sDisp < MaxDispatch
  /\ LET svc == ProjectLoadOne(ProjectLoadOne(sSvc, Num(id), StartMarker(Undefined)),
                               Num(id), StartMarker(Undefined))
     IN /\ sSvc' = svc
        /\ sSlots' = SlotsOf(svc, [sSlots EXCEPT !["loadOneA"] = Num(id),
                                                 !["loadOneB"] = Num(id)])
  /\ sDisp' = sDisp + 1
  /\ sLast' = [op |-> "loadOne"]
  /\ sClean' = FALSE
  /\ UNCHANGED <<sSnap, restOfService>>

ResolveLoadOne(slot, todo) ==
  /\ sSvc.alive /\ slot \in {"loadOneA", "loadOneB"} /\ sSlots[slot] # Undefined
  /\ LET svc == ProjectLoadOne(ProjectLoadOne(sSvc, sSlots[slot], todo),
                               sSlots[slot], EndMarker(Undefined))
     IN /\ sSvc' = svc
        /\ sSlots' = SlotsOf(svc, [sSlots EXCEPT ![slot] = Undefined])
  /\ sLast' = [op |-> "loadOneResolved"]
  /\ sClean' = FALSE
  /\ UNCHANGED <<sDisp, sSnap, restOfService>>

RejectLoadOne(slot) ==
  /\ sSvc.alive /\ slot \in {"loadOneA", "loadOneB"} /\ sSlots[slot] # Undefined
  /\ LET svc == ProjectEntityError(sSvc, sSlots[slot])
     IN /\ sSvc' = svc
        /\ sSlots' = SlotsOf(svc, [sSlots EXCEPT ![slot] = Undefined])
  /\ sLast' = [op |-> "loadOneRejected"]
  /\ sClean' = FALSE
  /\ UNCHANGED <<sDisp, sSnap, restOfService>>

DispatchToggle(id) ==
  /\ sSvc.alive /\ sDisp < MaxDispatch
  /\ LET svc == ProjectToggle(sSvc, Num(id))
     IN /\ sSvc' = svc
        /\ sSlots' = SlotsOf(svc, sSlots)
  /\ sDisp' = sDisp + 1
  /\ sLast' = [op |-> "toggle"]
  /\ sClean' = FALSE
  /\ UNCHANGED <<sSnap, restOfService>>

\* this.remove(id): the start marker is mapped to the id and projected
DispatchRemove(id) ==
  /\ sSvc.alive /\ sDisp < MaxDispatch
  /\ LET svc == ProjectRemove(sSvc, Num(id))
     IN /\ sSvc' = svc
        /\ sSlots' = SlotsOf(svc, [sSlots EXCEPT !["remove"] = Num(id)])
  /\ sDisp' = sDisp + 1
  /\ sSnap' = TodosIn(sSvc)
  /\ sLast' = [op |-> "remove", id |-> id]
  /\ sClean' = TRUE
  /\ UNCHANGED restOfService

\* deleteTodo() answers: its value and the end marker are both mapped to the id
ResolveRemove ==
  /\ sSvc.alive /\ sSlots["remove"] # Undefined
  /\ LET svc == ProjectRemove(ProjectRemove(sSvc, sSlots["remove"]), sSlots["remove"])
     IN /\ sSvc' = svc
        /\ sSlots' = SlotsOf(svc, [sSlots EXCEPT !["remove"] = Undefined])
  /\ sLast' = [op |-> "removeResolved", id |-> sSlots["remove"].num]
  /\ UNCHANGED <<sDisp, sSnap, sClean, restOfService>>

RejectRemove ==
  /\ sSvc.alive /\ sSlots["remove"] # Undefined
  /\ LET svc == ProjectEntityError(sSvc, sSlots["remove"])
     IN /\ sSvc' = svc
        /\ sSlots' = SlotsOf(svc, [sSlots EXCEPT !["remove"] = Undefined])
  /\ sLast' = [op |-> "removeRejected", id |-> sSlots["remove"].num]
  /\ UNCHANGED <<sDisp, sSnap, sClean, restOfService>>

NextService ==
  \/ DispatchLoadAll
  \/ \E slot \in SlotNames, list \in ServiceLists : ResolveLoadAll(slot, list)
  \/ \E slot \in SlotNames : RejectLoadAll(slot)
  \/ \E id \in Ids : DispatchLoadOne(id)
  \/ \E slot \in SlotNames, id \in Ids, c \in BOOLEAN : ResolveLoadOne(slot, ServiceTodo(id, c))
  \/ \E slot \in SlotNames : RejectLoadOne(slot)
  \/ \E id \in Ids : DispatchToggle(id)
  \/ \E id \in Ids : DispatchRemove(id)
  \/ ResolveRemove
  \/ RejectRemove

-----------------------------------------------------------------------------
(* The entity helpers applied to collections of todos *)

HelperEntries(id) ==
  { [value |-> ServiceTodo(id, FALSE), loading |-> Bool(FALSE), error |-> Bool(FALSE)],
    [value |-> ServiceTodo(id, TRUE), loading |-> Bool(TRUE), error |-> Bool(FALSE)],
    [value |-> ServiceTodo(id, FALSE), loading |-> Bool(FALSE), error |-> Bool(TRUE)] }

HelperMaps ==
  UNION { { m \in [{ToStr(id) : id \in ids} -> UNION {HelperEntries(id) : id \in ids}] :
              \A id \in ids : m[ToStr(id)] \in HelperEntries(id) } : ids \in SUBSET Ids }

HelperCollections ==
  { [value |-> m, loading |-> Bool(f[1]), error |-> Bool(f[2])] :
      m \in HelperMaps, f \in {<<FALSE, FALSE>>, <<TRUE, FALSE>>, <<FALSE, TRUE>>} }

Updates ==
  { EmptyObj, [completed |-> Bool(TRUE)], [title |-> Str("u")],
    [title |-> Str("u"), completed |-> Bool(TRUE)] }

IdleEntity ==
  /\ hC = Undefined
  /\ hId = Undefined
  /\ hUpd = Undefined
  /\ hErr = Undefined
  /\ hOp = "idle"
  /\ hR = Undefined

InitEntity ==
  /\ hC \in HelperCollections
  /\ hId \in {Num(id) : id \in Ids}
  /\ hUpd \in Updates
  /\ hErr \in {[message |-> Str("boom")], Str("timeout")}
  /\ hOp = "none"
  /\ hR = Undefined

ApplyUpdateEntity ==
  /\ hOp = "none"
  /\ hOp' = "updateEntity"
  /\ hR' = updateEntity(hC, hId, hUpd)
  /\ UNCHANGED <<hC, hId, hUpd, hErr, restOfEntity>>

ApplyRemoveEntity ==
  /\ hOp = "none"
  /\ hOp' = "removeEntity"
  /\ hR' = removeEntity(hC, hId)
  /\ UNCHANGED <<hC, hId, hUpd, hErr, restOfEntity>>

ApplySetCollectionLoading ==
  /\ hOp = "none"
  /\ hOp' = "setCollectionLoading"
  /\ hR' = setCollectionLoading(hC)
  /\ UNCHANGED <<hC, hId, hUpd, hErr, restOfEntity>>

ApplySetEntityLoading ==
  /\ hOp = "none"
  /\ hOp' = "setEntityLoading"
  /\ hR' = setEntityLoading(hC, hId)
  /\ UNCHANGED <<hC, hId, hUpd, hErr, restOfEntity>>

\* the setter declares one parameter: a cause passed after it is not read
ApplySetCollectionError ==
  /\ hOp = "none"
  /\ hOp' = "setCollectionError"
  /\ hR' = setCollectionError(hC)
  /\ UNCHANGED <<hC, hId, hUpd, hErr, restOfEntity>>

\* the setter declares two parameters: a cause passed after them is not read
ApplySetEntityError ==
  /\ hOp = "none"
  /\ hOp' = "setEntityError"
  /\ hR' = setEntityError(hC, hId)
  /\ UNCHANGED <<hC, hId, hUpd, hErr, restOfEntity>>

NextEntity ==
  \/ ApplySetCollectionError
  \/ ApplySetEntityError
  \/ ApplyUpdateEntity
  \/ ApplyRemoveEntity
  \/ ApplySetCollectionLoading
  \/ ApplySetEntityLoading

-----------------------------------------------------------------------------
(* Tracked actions (actions-with-tracking/proxy.ts) *)

ActionNames == {"save", "load"}

\* the setup registers transforms({ save: (todo) => todo.id })
transformsMap == {"save"}

TypeErr == Str("TypeError")

toId(v) == IF IsNullish(v) THEN Thrown ELSE Get(v, "id")

\* transformsMap && transformsMap[prop] ? transformsMap[prop](value) : value
ApplyTransform(prop, value) == IF prop \in transformsMap THEN toId(value) ELSE value

Ev(n, sig, val) == [n |-> n, sig |-> sig, val |-> val]

\* subject, closed, subs: the entry of subjectMap, whether it is completed, and
\* whether the stream has a subscriber; signals: the entry of stateMap, "none"
\* or "open" (nothing completes its three subjects)
NewAction ==
  [subject |-> FALSE, pipeline |-> "none", inner |-> Undefined,
   loading |-> FALSE, subs |-> FALSE, closed |-> FALSE, signals |-> "none"]

\* tap next of the inner observable, with the two emissions exchanged
OnInnerNextCompleteFirst(n) ==
  <<Ev(n, "complete", Bool(TRUE)), Ev(n, "loading", Bool(FALSE))>>

\* tap next of the inner observable
OnInnerNext(n) == <<Ev(n, "loading", Bool(FALSE)), Ev(n, "complete", Bool(TRUE))>>

\* tap error of the inner observable, and the catch around the transform
OnInnerError(n, err) ==
  <<Ev(n, "loading", Bool(FALSE)), Ev(n, "error", err), Ev(n, "sink", err)>>

\* how from(Promise.resolve(v)) will settle
InnerOf(v) ==
  IF "promise" \in DOMAIN v /\ v.promise = "rejected" THEN [reject |-> v.with]
  ELSE Str("resolve")

\* subject.next(val): the tracking pipeline, subscribed first, then the
\* subscribers of the stream. The result is the action and what was emitted.
SubjectNext(a, n, val) ==
  LET tv == ApplyTransform(n, val)
      deliver == IF a.subs THEN <<Ev(n, "next", val)>> ELSE <<>>
  IN IF a.closed THEN [act |-> a, out |-> <<>>, threw |-> FALSE]
     ELSE IF a.pipeline # "live" THEN [act |-> a, out |-> deliver, threw |-> FALSE]
     ELSE IF tv = Thrown
       THEN [act |-> [a EXCEPT !.loading = FALSE, !.inner = Undefined],
             out |-> <<Ev(n, "loading", Bool(TRUE))>> \o OnInnerError(n, TypeErr) \o deliver,
             threw |-> TRUE]
       ELSE [act |-> [a EXCEPT !.loading = TRUE, !.inner = InnerOf(tv)],
             out |-> <<Ev(n, "loading", Bool(TRUE))>> \o deliver,
             threw |-> FALSE]

\* dispatch(value, prop)
dispatch(a, n, value) ==
  LET b == [a EXCEPT !.subject = TRUE]
      val == ApplyTransform(n, value)
  IN IF val = Thrown
       THEN [act |-> b, out |-> <<Ev(n, "sink", TypeErr)>>, threw |-> TRUE]
       ELSE SubjectNext(b, n, val)

\* the arguments the registered transform is called with in the course of
\* dispatch(value, prop): by dispatch itself and, when subject.next(val) reaches
\* the tracking pipeline, by its switchMap with the value dispatch passed on
TransformCalls(a, n, value) ==
  IF n \notin transformsMap THEN <<>>
  ELSE IF ApplyTransform(n, value) = Thrown THEN <<value>>
  ELSE IF a.closed \/ a.pipeline # "live" THEN <<value>>
  ELSE <<value, ApplyTransform(n, value)>>

\* args[0] after the config, if there is one, was popped
PayloadOf(args) ==
  LET last == IF Len(args) = 0 THEN Undefined ELSE args[Len(args)]
      rest == IF TypeofObject(last) THEN SubSeq(args, 1, Len(args) - 1) ELSE args
  IN IF Len(rest) = 0 THEN Undefined ELSE rest[1]

\* a dispatcher function that treats every call as silent
DispatcherAlwaysSilent(a, n, args) ==
  LET last == IF Len(args) = 0 THEN Undefined ELSE args[Len(args)]
      popped == TypeofObject(last)
      rest == IF popped THEN SubSeq(args, 1, Len(args) - 1) ELSE args
      payload == IF Len(rest) = 0 THEN Undefined ELSE rest[1]
      st == [a EXCEPT !.signals = "open"]
      d == dispatch(st, n, payload)
  IN IF popped /\ last = Null
       THEN [act |-> st, out |-> <<Ev(n, "throw", TypeErr)>>, threw |-> FALSE]
       ELSE [act |-> d.act,
             out |-> <<Ev(n, "complete", Bool(FALSE)), Ev(n, "error", Null)>> \o d.out,
             threw |-> d.threw]

\* the dispatcher function returned for a property: (...args) => { ... }
Dispatcher(a, n, args) ==
  LET last == IF Len(args) = 0 THEN Undefined ELSE args[Len(args)]
      popped == TypeofObject(last)
      config == IF popped THEN last ELSE EmptyObj
      rest == IF popped THEN SubSeq(args, 1, Len(args) - 1) ELSE args
      payload == IF Len(rest) = 0 THEN Undefined ELSE rest[1]
      silent == Truthy(Get(config, "silent"))
      st == [a EXCEPT !.signals = "open"]
      b == IF silent THEN st ELSE [st EXCEPT !.loading = TRUE]
      reset == (IF silent THEN <<>> ELSE <<Ev(n, "loading", Bool(TRUE))>>)
               \o <<Ev(n, "complete", Bool(FALSE)), Ev(n, "error", Null)>>
      d == dispatch(b, n, payload)
  IN IF config = Null
       THEN [act |-> st, out |-> <<Ev(n, "throw", TypeErr)>>, threw |-> FALSE]
       ELSE [act |-> d.act, out |-> reset \o d.out, threw |-> d.threw]

MaxCalls == 2

Resolved == Promise("resolved", Num(1))

Rejected == Promise("rejected", Str("cause"))

Payloads == {Undefined, Null, Num(1), [id |-> Num(1)], Resolved, Rejected}

Configs == {EmptyObj, [silent |-> Bool(TRUE)]}

ArgLists == {<<p>> : p \in Payloads} \cup {<<p, c>> : p \in Payloads, c \in Configs}

\* the slices of a bulk call, as the entries Object.entries() lists
BulkPayloads == {Undefined, Num(1), Rejected}

Slices ==
  {<<<<n, p>>>> : n \in ActionNames, p \in BulkPayloads}
    \cup {<<<<"save", p>>, <<"load", q>>>> : p \in BulkPayloads, q \in BulkPayloads}

RECURSIVE Bulk(_, _)
\* props.forEach(slice => Object.entries(slice).forEach(([k, v]) => dispatch(v, k)))
Bulk(acts, entries) ==
  IF entries = <<>> THEN [acts |-> acts, out |-> <<>>, threw |-> {}]
  ELSE LET k == entries[1][1]
           d == dispatch(acts[k], k, entries[1][2])
           r == Bulk([acts EXCEPT ![k] = d.act], Tail(entries))
       IN [acts |-> r.acts, out |-> d.out \o r.out,
           threw |-> r.threw \cup (IF d.threw THEN {k} ELSE {})]

\* an assignment that creates the action's signals and sets loading
setCreating(acts, n) ==
  [acts |-> [acts EXCEPT ![n] = [@ EXCEPT !.signals = "open", !.loading = TRUE]],
   out |-> <<Ev(n, "loading", Bool(TRUE))>>]

\* set() { throw new Error('No setters available. ...') }
set(acts, n) == [acts |-> acts, out |-> <<Ev(n, "throw", Str("Error"))>>]

IdleActions ==
  /\ aActs = [n \in ActionNames |-> NewAction]
  /\ aLog = <<>>
  /\ aCalls = MaxCalls
  /\ aLast = [op |-> "idle"]
  /\ aTorn = FALSE

InitActions ==
  /\ aActs = [n \in ActionNames |-> NewAction]
  /\ aLog = <<>>
  /\ aCalls = 0
  /\ aLast = [op |-> "init"]
  /\ aTorn = FALSE

\* actions.name$ is read and subscribed to: getEventEmitter(name)
AccessStream(n) ==
  /\ aCalls < MaxCalls
  /\ ~aActs[n].subs /\ ~aActs[n].closed
  /\ aActs' = [aActs EXCEPT ![n] =
                 IF aActs[n].subject THEN [@ EXCEPT !.subs = TRUE]
                 ELSE [@ EXCEPT !.subject = TRUE, !.pipeline = "live", !.subs = TRUE,
                                !.signals = "open"]]
  /\ UNCHANGED <<aLog, aCalls, aLast, aTorn, restOfActions>>

\* actions.nameLoading$, nameComplete$ or nameError$ is read and subscribed
\* to: getOrCreateState(name)
AccessSignals(n) ==
  /\ aCalls < MaxCalls
  /\ aActs[n].signals = "none"
  /\ aActs' = [aActs EXCEPT ![n] = [@ EXCEPT !.signals = "open"]]
  /\ UNCHANGED <<aLog, aCalls, aLast, aTorn, restOfActions>>

\* DestroyRef.onDestroy: Object.values(subjectMap).forEach(s => s.complete())
Destroy ==
  /\ aCalls < MaxCalls
  /\ ~aTorn
  /\ aTorn' = TRUE
  /\ aActs' = [n \in ActionNames |->
                 IF aActs[n].subject
                   THEN [aActs[n] EXCEPT !.closed = TRUE, !.subs = FALSE]
                   ELSE aActs[n]]
  /\ UNCHANGED <<aLog, aCalls, aLast, restOfActions>>

\* actions.name(...args)
Dispatch(n, args) ==
  /\ aCalls < MaxCalls
  /\ LET d == Dispatcher(aActs[n], n, args)
     IN /\ aActs' = [aActs EXCEPT ![n] = d.act]
        /\ aLog' = d.out
        /\ aLast' = [op |-> "dispatch", n |-> n, args |-> args,
                     threw |-> IF d.threw THEN {n} ELSE {},
                     transforms |-> IF d.out = <<Ev(n, "throw", TypeErr)>> THEN <<>>
                                    ELSE TransformCalls(aActs[n], n, PayloadOf(args))]
  /\ aCalls' = aCalls + 1
  /\ UNCHANGED <<aTorn, restOfActions>>

\* actions.name = ...: the set trap of the proxy
Assign(n) ==
  /\ aCalls < MaxCalls
  /\ aActs' = set(aActs, n).acts
  /\ aLog' = set(aActs, n).out
  /\ aLast' = [op |-> "set", n |-> n, threw |-> {n}]
  /\ aCalls' = aCalls + 1
  /\ UNCHANGED <<aTorn, restOfActions>>

\* actions({ ... })
BulkDispatch(entries) ==
  /\ aCalls < MaxCalls
  /\ LET r == Bulk(aActs, entries)
     IN /\ aActs' = r.acts
        /\ aLog' = r.out
        /\ aLast' = [op |-> "bulk", entries |-> entries, threw |-> r.threw]
  /\ aCalls' = aCalls + 1
  /\ UNCHANGED <<aTorn, restOfActions>>

\* the inner promise of the pipeline resolves
SettleResolved(n) ==
  /\ aActs[n].pipeline = "live" /\ aActs[n].inner = Str("resolve")
  /\ aActs' = [aActs EXCEPT ![n] = [@ EXCEPT !.inner = Undefined, !.loading = FALSE]]
  /\ aLog' = aLog \o OnInnerNext(n)
  /\ UNCHANGED <<aCalls, aLast, aTorn, restOfActions>>

\* the inner promise rejects: signalled, then the error ends the pipeline,
\* which was subscribed without an error callback
SettleRejected(n) ==
  /\ aActs[n].pipeline = "live" /\ "reject" \in DOMAIN aActs[n].inner
  /\ aActs' = [aActs EXCEPT ![n] = [@ EXCEPT !.inner = Undefined, !.loading = FALSE,
                                              !.pipeline = "dead"]]
  /\ aLog' = aLog \o OnInnerError(n, aActs[n].inner.reject)
  /\ UNCHANGED <<aCalls, aLast, aTorn, restOfActions>>

NextActions ==
  \/ \E n \in ActionNames : AccessStream(n)
  \/ \E n \in ActionNames : AccessSignals(n)
  \/ Destroy
  \/ \E n \in ActionNames, args \in ArgLists : Dispatch(n, args)
  \/ \E entries \in Slices : BulkDispatch(entries)
  \/ \E n \in ActionNames : SettleResolved(n)
  \/ \E n \in ActionNames : SettleRejected(n)
  \/ \E n \in ActionNames : Assign(n)

-----------------------------------------------------------------------------
(* The get trap of the actions proxy: which accessor a property name selects.
   Property names are sequences of characters. *)

EndsWith(s, t) == Len(s) >= Len(t) /\ SubSeq(s, Len(s) - Len(t) + 1, Len(s)) = t

\* s.slice(0, -k), and s.replace(/t$/, '') for a suffix t of k characters
DropLast(s, k) == SubSeq(s, 1, Len(s) - k)

\* slicedPropName.charAt(0).toLowerCase() + slicedPropName.slice(1)
LowerFirst(s) ==
  IF s = <<>> THEN <<>>
  ELSE <<CASE s[1] = "S" -> "s" [] s[1] = "L" -> "l" [] s[1] = "O" -> "o" [] OTHER -> s[1]>>
         \o Tail(s)

LoadingSuffix == <<"L", "o", "a", "d", "i", "n", "g", "$">>

CompleteSuffix == <<"C", "o", "m", "p", "l", "e", "t", "e", "$">>

ErrorSuffix == <<"E", "r", "r", "o", "r", "$">>

\* get(_, property): the accessor returned and the action it belongs to
get(property) ==
  IF EndsWith(property, LoadingSuffix)
    THEN [kind |-> "loading$", action |-> DropLast(property, Len(LoadingSuffix))]
  ELSE IF EndsWith(property, CompleteSuffix)
    THEN [kind |-> "complete$", action |-> DropLast(property, Len(CompleteSuffix))]
  ELSE IF EndsWith(property, ErrorSuffix)
    THEN [kind |-> "error$", action |-> DropLast(property, Len(ErrorSuffix))]
  ELSE IF property # <<>> /\ property[Len(property)] = "$"
    THEN IF Len(property) = 1 THEN [kind |-> "merge", action |-> <<>>]
         ELSE [kind |-> "stream", action |-> DropLast(property, 1)]
  ELSE IF Len(property) >= 2 /\ SubSeq(property, 1, 2) = <<"o", "n">>
    THEN [kind |-> "effect", action |-> LowerFirst(SubSeq(property, 3, Len(property)))]
  ELSE [kind |-> "dispatcher", action |-> property]

\* the action names an application declares
DeclaredNames ==
  { <<"s", "a", "v", "e">>,
    <<"l", "o", "a", "d">>,
    <<"x">>,
    <<"o", "n">>,
    <<"o", "n", "l", "i", "n", "e">>,
    <<"o", "n", "S", "a", "v", "e">>,
    <<"o", "n", "L", "o", "a", "d">>,
    <<"r", "e", "l", "o", "a", "d">>,
    <<"i", "s", "L", "o", "a", "d", "i", "n", "g">>,
    <<"m", "a", "r", "k", "C", "o", "m", "p", "l", "e", "t", "e">>,
    <<"l", "o", "g", "E", "r", "r", "o", "r">> }

\* the property an application reads to get an accessor of the action name
PropertyOf(name, accessor) ==
  CASE accessor = "dispatcher" -> name
    [] accessor = "stream" -> name \o <<"$">>
    [] accessor = "loading$" -> name \o LoadingSuffix
    [] accessor = "complete$" -> name \o CompleteSuffix
    [] accessor = "error$" -> name \o ErrorSuffix

IdleAccess ==
  /\ pName = <<>>
  /\ pKind = "none"
  /\ pOp = "idle"
  /\ pR = Undefined

InitAccess ==
  /\ pName \in DeclaredNames
  /\ pKind \in {"dispatcher", "stream", "loading$", "complete$", "error$"}
  /\ pOp = "none"
  /\ pR = Undefined

\* actions[property] is read
ReadProperty ==
  /\ pOp = "none"
  /\ pOp' = "get"
  /\ pR' = get(PropertyOf(pName, pKind))
  /\ UNCHANGED <<pName, pKind, restOfAccess>>

NextAccess == ReadProperty

-----------------------------------------------------------------------------
(* Specifications: one per component, the other components at rest *)

InitSpecMerge ==
  IdleEmit /\ IdleGlobal /\ IdleService /\ IdleActions /\ IdleEntity /\ IdleAccess /\ InitMerge

SpecMerge == InitSpecMerge /\ [][NextMerge]_vars

InitSpecEmit ==
  IdleMerge /\ IdleGlobal /\ IdleService /\ IdleActions /\ IdleEntity /\ IdleAccess /\ InitEmit

SpecEmit == InitSpecEmit /\ [][NextEmit]_vars

InitSpecGlobal ==
  IdleMerge /\ IdleEmit /\ IdleService /\ IdleActions /\ IdleEntity /\ IdleAccess /\ InitGlobal

SpecGlobal == InitSpecGlobal /\ [][NextGlobal]_vars

InitSpecService ==
  IdleMerge /\ IdleEmit /\ IdleGlobal /\ IdleActions /\ IdleEntity /\ IdleAccess /\ InitService

SpecService == InitSpecService /\ [][NextService]_vars

InitSpecActions ==
  IdleMerge /\ IdleEmit /\ IdleGlobal /\ IdleService /\ IdleEntity /\ IdleAccess /\ InitActions

SpecActions == InitSpecActions /\ [][NextActions]_vars

InitSpecEntity ==
  IdleMerge /\ IdleEmit /\ IdleGlobal /\ IdleService /\ IdleActions /\ IdleAccess /\ InitEntity

SpecEntity == InitSpecEntity /\ [][NextEntity]_vars

InitSpecAccess ==
  IdleMerge /\ IdleEmit /\ IdleGlobal /\ IdleService /\ IdleActions /\ IdleEntity /\ InitAccess

SpecAccess == InitSpecAccess /\ [][NextAccess]_vars

\* a promise that is pending settles: its reaction runs as a microtask
SpecActionsFair ==
  /\ SpecActions
  /\ \A n \in ActionNames : WF_vars(SettleResolved(n)) /\ WF_vars(SettleRejected(n))

-----------------------------------------------------------------------------
(* C1: mergeEntityContext(C, P) and mergeCollectionState(C, P) keep every   *)
(* entry of C whose key does not occur in P.value                           *)

PartialKeys(p) == DOMAIN Props(Get(p, "value"))

-----------------------------------------------------------------------------
(* C10: every subscription to withLoadingEmission(flag) over a producer     *)
(* that emits x1..xn and completes observes {flag:true}, x1..xn,            *)
(* {flag:false} and then completion; flag is "loading" when none is given   *)

C10_Flag == IF eProp = Undefined THEN "loading" ELSE eProp.str

C10_Marker(b) == NextN([k \in {C10_Flag} |-> Bool(b)])

C10_Values(n) == [j \in 1..n |-> NextN(eSrc[j])]

C10_Bracket ==
  \A i \in DOMAIN eSubs :
    /\ eSubs[i].st = "active" =>
         eSubs[i].out = <<C10_Marker(TRUE)>> \o C10_Values(eSubs[i].pos)
    /\ eSubs[i].st = "completed" =>
         eSubs[i].out =
           <<C10_Marker(TRUE)>> \o C10_Values(Len(eSrc)) \o <<C10_Marker(FALSE), CompleteN>>

C10_Witness ==
  /\ eProp = Undefined
  /\ Len(eSrc) = 2
  /\ \A i \in DOMAIN eSubs : eSubs[i].st = "completed"
  /\ NumSubs >= 2

-----------------------------------------------------------------------------
(* C2: a fetchTodos dispatch during an unsettled request is dropped: at     *)
(* most one list request is in flight, a dispatch while one is in flight    *)
(* causes no call and changes nothing, a dispatch after settlement calls    *)

C2_Exhaust ==
  /\ [](gInflight <= 1)
  /\ [][gDisp' = gDisp + 1 =>
          IF gInflight = 0
            THEN gCalls' = gCalls + 1 /\ gInflight' = 1
            ELSE gCalls' = gCalls /\ gInflight' = gInflight /\ gState' = gState]_vars

C2_Witness ==
  /\ gDisp = 3
  /\ gCalls = 2
  /\ gSettled = 1
  /\ gLast.op = "fetchTodos"

(* C7: after fetchTodos resolves with a list, todos.loading is false and    *)
(* todos.value[String(e.id)].value = e for every returned entity e          *)

TodosOf(state) == Get(state, "todos")

C7_ListStored ==
  gLast.op = "fetchTodosResolved" =>
    /\ TodosOf(gState).loading = Bool(FALSE)
    /\ \A i \in DOMAIN gLast.list :
         Get(Get(TodosOf(gState).value, gLast.list[i].id.str), "value") = gLast.list[i]

(* C8: after the list request fails with {message: m}, todos.error = m,     *)
(* todos.loading is false and todos.value is what it was before the dispatch *)

ValueOf(todos) == Or(Get(todos, "value"), EmptyObj)

C8_ErrorKeepsValue ==
  gLast.op = "fetchTodosRejected" =>
    /\ TodosOf(gState).error = gLast.message
    /\ TodosOf(gState).loading = Bool(FALSE)
    /\ ValueOf(TodosOf(gState)) = ValueOf(gSnap)

-----------------------------------------------------------------------------
(* C9: after a remove dispatch for id succeeds, the key set is the key set  *)
(* before the dispatch minus id, and every remaining entry is unchanged     *)

KeysOf(todos) == DOMAIN Props(Get(todos, "value"))

C9_Removed ==
  (sLast.op = "removeResolved" /\ sClean) =>
    /\ KeysOf(TodosIn(sSvc)) = KeysOf(sSnap) \ {ToStr(sLast.id)}
    /\ \A k \in KeysOf(TodosIn(sSvc)) : TodosIn(sSvc).value[k] = sSnap.value[k]

C9_Witness ==
  /\ sLast.op = "removeResolved" /\ sClean
  /\ sLast.id = 1
  /\ KeysOf(sSnap) = {"1", "2"}
  /\ KeysOf(TodosIn(sSvc)) = {"2"}

-----------------------------------------------------------------------------
(* C3: when a dispatched payload settles successfully, the action's loading *)
(* signal emits false and then its complete signal emits true, and that     *)
(* settlement emits no error and sends nothing to the error sink            *)

Emitted == SubSeq(aLog', Len(aLog) + 1, Len(aLog'))

SettlesSuccessfully(n) ==
  /\ aCalls' = aCalls
  /\ aActs[n].inner = Str("resolve")
  /\ aActs'[n].inner = Undefined

C3_LoadingThenComplete ==
  [][\A n \in ActionNames :
       SettlesSuccessfully(n) =>
         /\ \E i, j \in DOMAIN Emitted :
              /\ i < j
              /\ Emitted[i] = Ev(n, "loading", Bool(FALSE))
              /\ Emitted[j] = Ev(n, "complete", Bool(TRUE))
              /\ \A k \in 1..i : Emitted[k] # Ev(n, "complete", Bool(TRUE))
         /\ ~aActs'[n].loading
         /\ \A k \in DOMAIN Emitted :
              Emitted[k].sig \notin {"error", "sink", "throw"}]_vars

C3_Witness ==
  /\ aLast.op = "dispatch" /\ aLast.n = "load" /\ aLast.args = <<Resolved, EmptyObj>>
  /\ aActs["load"].inner = Undefined /\ ~aActs["load"].loading
  /\ Len(aLog) >= 2
  /\ aLog[Len(aLog) - 1] = Ev("load", "loading", Bool(FALSE))
  /\ aLog[Len(aLog)] = Ev("load", "complete", Bool(TRUE))

-----------------------------------------------------------------------------
(* C4: a dispatch whose payload is a rejected promise ends with loading     *)
(* false, the cause on the error signal, no complete=true, and the cause    *)
(* sent to the error sink exactly once                                      *)

CountOf(e) == Cardinality({k \in DOMAIN aLog : aLog[k] = e})

\* the last call dispatched a rejected promise on an action without a
\* transform whose pipeline was subscribed, and nothing of it is pending
RejectedPayloadDone(n) ==
  /\ ~aTorn
  /\ aLast.op = "dispatch" /\ aLast.n = n /\ n \notin transformsMap
  /\ aLast.args[1] = Rejected
  /\ aActs[n].pipeline # "none"
  /\ aActs[n].inner = Undefined

C4_RejectedPayloadErrors ==
  \A n \in ActionNames :
    RejectedPayloadDone(n) =>
      /\ ~aActs[n].loading
      /\ CountOf(Ev(n, "error", Rejected.with)) >= 1
      /\ CountOf(Ev(n, "complete", Bool(TRUE))) = 0
      /\ CountOf(Ev(n, "sink", Rejected.with)) = 1

-----------------------------------------------------------------------------
(* C5: when the transform of an action throws during a single or bulk       *)
(* dispatch, nothing is thrown to the caller, no value is delivered to the  *)
(* subscribers of the action's stream, and the error reaches the error sink *)

C5_ThrowNotDelivered ==
  \A n \in ActionNames :
    (aLast.op \in {"dispatch", "bulk"} /\ n \in aLast.threw) =>
      /\ \A k \in DOMAIN aLog : aLog[k].sig # "throw"
      /\ \A k \in DOMAIN aLog : ~(aLog[k].n = n /\ aLog[k].sig = "next")
      /\ CountOf(Ev(n, "sink", TypeErr)) >= 1

-----------------------------------------------------------------------------
(* C6: when the transform of an action throws during a dispatch, after the  *)
(* call the loading signal is false and the error signal holds the error    *)

ErrorsOf(n) == {k \in DOMAIN aLog : aLog[k].n = n /\ aLog[k].sig = "error"}

C6_ThrowSignalled ==
  \A n \in ActionNames :
    (aLast.op = "dispatch" /\ n \in aLast.threw) =>
      /\ ~aActs[n].loading
      /\ \E k \in ErrorsOf(n) :
           /\ aLog[k].val = TypeErr
           /\ \A j \in ErrorsOf(n) : j <= k

-----------------------------------------------------------------------------
(* C11: calling an action's dispatch function with a payload v and no       *)
(* config delivers exactly one value to the subscribers of the action's     *)
(* stream: transform(v) when a transform is registered, v otherwise         *)

\* the values the stream n delivered to its subscribers, in order
DeliveredIn(log, n) ==
  LET IsNext(e) == e.n = n /\ e.sig = "next"
      nexts == SelectSeq(log, IsNext)
  IN [k \in DOMAIN nexts |-> nexts[k].val]

\* this step is the call actions.n(...args)
IsDispatchOf(n, args) ==
  /\ aCalls' = aCalls + 1
  /\ aLast'.op = "dispatch" /\ aLast'.n = n /\ aLast'.args = args

C11_PayloadDelivered ==
  [][\A n \in ActionNames, v \in Payloads :
       (IsDispatchOf(n, <<v>>) /\ aActs[n].subs /\ ApplyTransform(n, v) # Thrown) =>
         DeliveredIn(aLog', n) = <<ApplyTransform(n, v)>>]_vars

-----------------------------------------------------------------------------
(* C12: a dispatch made with config.silent = true still delivers its        *)
(* payload to the subscribers of the stream, and the loading signal of the  *)
(* action does not go to true because of it                                 *)

SilentConfig == [silent |-> Bool(TRUE)]

C12_SilentKeepsLoading ==
  [][\A n \in ActionNames, v \in Payloads :
       IsDispatchOf(n, <<v, SilentConfig>>) =>
         /\ (aActs[n].subs /\ ApplyTransform(n, v) # Thrown) =>
              DeliveredIn(aLog', n) = <<ApplyTransform(n, v)>>
         /\ \A k \in DOMAIN aLog' : aLog'[k] # Ev(n, "loading", Bool(TRUE))
         /\ aActs'[n].loading = aActs[n].loading]_vars

-----------------------------------------------------------------------------
(* C13: every dispatch of an action first resets the previous outcome: the  *)
(* complete signal emits false and the error signal emits null before the   *)
(* payload is forwarded to the stream                                       *)

\* the actions this step dispatches, by a single or a bulk call
DispatchedIn ==
  IF aCalls' = aCalls THEN {}
  ELSE IF aLast'.op = "dispatch" THEN {aLast'.n}
  ELSE IF aLast'.op = "bulk" THEN {aLast'.entries[i][1] : i \in DOMAIN aLast'.entries}
  ELSE {}

ResetBeforeForward(log, n) ==
  \E i, j \in DOMAIN log :
    /\ log[i] = Ev(n, "complete", Bool(FALSE))
    /\ log[j] = Ev(n, "error", Null)
    /\ \A k \in DOMAIN log : (log[k].n = n /\ log[k].sig = "next") => (k > i /\ k > j)

C13_OutcomeReset ==
  [][\A n \in DispatchedIn : ResetBeforeForward(aLog', n)]_vars

-----------------------------------------------------------------------------
(* C14: the loading signal of an action is false initially; after a         *)
(* non-silent dispatch returns it is true until the most recent dispatch of *)
(* the action settles, also when a newer dispatch supersedes an unsettled   *)
(* one; it turns false only at a settlement that leaves nothing unsettled   *)

\* the call actions.n(...args) is a non-silent dispatch
NonSilent(args) ==
  LET last == args[Len(args)]
  IN last # Null /\ ~(TypeofObject(last) /\ Truthy(Get(last, "silent")))

\* the step signals the failure of n's dispatch on the error signal
ErrorSignalled(n) ==
  \E k \in DOMAIN Emitted : Emitted[k].n = n /\ Emitted[k].sig = "error" /\ Emitted[k].val # Null

\* the step signals a settlement of n: loading=false, then complete=true or an error
SettlementSignalled(n, log) ==
  \E i, j \in DOMAIN log :
    /\ i < j
    /\ log[i] = Ev(n, "loading", Bool(FALSE))
    /\ log[j].n = n
    /\ \/ log[j] = Ev(n, "complete", Bool(TRUE))
       \/ log[j].sig = "error" /\ log[j].val # Null

-----------------------------------------------------------------------------
(* C15: every non-silent dispatch whose payload resolves or rejects is      *)
(* eventually followed by loading=false together with complete=true or an  *)
(* error emission, whether the stream was first read before or after the    *)
(* first dispatch                                                           *)

\* the last call was a non-silent dispatch of n, an action without a
\* transform, made before any teardown
DispatchedLast(n) ==
  /\ aLast.op = "dispatch" /\ aLast.n = n /\ n \notin transformsMap
  /\ NonSilent(aLast.args)
  /\ ~aTorn

Settled(n) == ~aActs[n].loading /\ SettlementSignalled(n, aLog)

C15_EventuallySettled ==
  \A n \in ActionNames : DispatchedLast(n) ~> Settled(n)

-----------------------------------------------------------------------------
(* C19: after a dispatch of an action has settled with an error, a later    *)
(* dispatch of the same action still runs the full cycle up to its          *)
(* settlement                                                               *)

\* as C15, for an action whose stream was subscribed before the dispatch,
\* which includes every dispatch that follows an errored settlement
DispatchedLastOnPipeline(n) == DispatchedLast(n) /\ aActs[n].pipeline # "none"

C19_CycleAfterError ==
  \A n \in ActionNames : DispatchedLastOnPipeline(n) ~> Settled(n)

-----------------------------------------------------------------------------
(* C16: a bulk call has, for every action it lists, the effect of a single  *)
(* dispatch of that action with the listed payload: the same emissions and  *)
(* the same state of the action afterwards                                  *)

EventsOf(log, n) == SelectSeq(log, LAMBDA e : e.n = n)

C16_BulkAsSingle ==
  [][(aCalls' = aCalls + 1 /\ aLast'.op = "bulk") =>
       \A k \in DOMAIN aLast'.entries :
         LET n == aLast'.entries[k][1]
             d == Dispatcher(aActs[n], n, <<aLast'.entries[k][2]>>)
         IN /\ aActs'[n] = d.act
            /\ EventsOf(aLog', n) = d.out]_vars

-----------------------------------------------------------------------------
(* C17: the teardown of the owning container completes every value stream   *)
(* and every loading/complete/error channel created so far, and leaves no   *)
(* subscriber on any of them                                                *)

C17_TeardownCompletesAll ==
  [][(~aTorn /\ aTorn') =>
       \A n \in ActionNames :
         /\ aActs[n].subject => (aActs'[n].closed /\ ~aActs'[n].subs)
         /\ aActs'[n].signals # "open"]_vars

-----------------------------------------------------------------------------
(* C18: after the teardown a single or bulk dispatch of any action either   *)
(* throws or does nothing: no value reaches a subscriber and no loading,    *)
(* complete or error signal is emitted or changed                           *)

Signals == {"loading", "complete", "error"}

C18_NoDispatchAfterTeardown ==
  [][(aTorn /\ aCalls' = aCalls + 1) =>
       /\ \A k \in DOMAIN aLog' : aLog'[k].sig \notin Signals \cup {"next"}
       /\ \A n \in ActionNames : aActs'[n].loading = aActs[n].loading]_vars

-----------------------------------------------------------------------------
(* C20: a failed list request is recorded as the error of todos and does    *)
(* not end the fetchTodos pipeline: a later dispatch calls getTodos() again *)
(* and the list it answers is merged into todos                             *)

C20_RecoversAfterFailure ==
  /\ [](gLast.op = "fetchTodosRejected" => Truthy(TodosOf(gState).error))
  /\ [][(gFailed /\ gInflight = 0 /\ gDisp' = gDisp + 1) =>
          (gCalls' = gCalls + 1 /\ gInflight' = 1)]_vars
  /\ []((gFailed /\ gLast.op = "fetchTodosResolved") =>
          \A i \in DOMAIN gLast.list :
            Get(Get(TodosOf(gState).value, gLast.list[i].id.str), "value") = gLast.list[i])

-----------------------------------------------------------------------------
(* C23: merging a partial into a single context value overrides every flag  *)
(* the partial holds and merges the value field key by key: keys of the old *)
(* value that the partial's value does not name are kept; a partial without *)
(* a value field leaves the value as it was                                 *)

C23_ValueMergedKeywise ==
  mOp = "mergeContextState" =>
    /\ \A f \in (DOMAIN mP) \ {"value"} : mR[f] = mP[f]
    /\ "value" \notin DOMAIN mP => mR.value = mC.value
    /\ ("value" \in DOMAIN mP /\ IsObject(mP.value)) => mR.value = Spread(mC.value, mP.value)

-----------------------------------------------------------------------------
(* C28: mergeEntityContextState(state, partial, key) throws when state[key] *)
(* is missing or is no object, and returns mergeEntityContext(state[key],   *)
(* partial) when state[key] is a collection                                 *)

-----------------------------------------------------------------------------
(* C29: for a key that C and the partial's value both hold,                 *)
(* mergeEntityContext merges the two entries: fields of C's entry and of    *)
(* its entity value that the partial's entry does not name are kept, the    *)
(* ones it names are overridden                                             *)

C29_InnerMerge ==
  (mOp = "mergeEntityContext" /\ IsObject(Get(mP, "value"))) =>
    \A k \in (DOMAIN mC.value) \cap PartialKeys(mP) :
      LET old == mC.value[k]
          upd == mP.value[k]
          new == mR.value[k]
      IN /\ \A f \in (DOMAIN old) \ (DOMAIN upd) : f \in DOMAIN new /\ new[f] = old[f]
         /\ \A f \in (DOMAIN upd) \ {"value"} : new[f] = upd[f]
         /\ ("value" \in DOMAIN upd /\ IsObject(upd.value) /\ IsObject(old.value)) =>
              new.value = Spread(old.value, upd.value)

-----------------------------------------------------------------------------
(* C21: at the collection level and in every entry, loading = true never    *)
(* comes with a set error: the merge that takes a level back into loading   *)
(* clears the error of an earlier failure                                   *)

LoadingWithError(c) == Get(c, "loading") = Bool(TRUE) /\ Truthy(Get(c, "error"))

C21_LoadingExcludesError ==
  mOp = "mergeCollectionState" =>
    /\ ~LoadingWithError(mR)
    /\ \A k \in DOMAIN Props(Get(mR, "value")) : ~LoadingWithError(Props(mR.value)[k])

-----------------------------------------------------------------------------
(* C24: for a collection C that holds key k, updateEntity(C, k, p) yields   *)
(* an entry k whose value is C.value[k].value with p's fields overriding    *)
(* and whose loading and error are unchanged; the other entries and the     *)
(* outer flags are unchanged; with p = {} the entry's value is unchanged    *)

HKey == StringOf(hId)

\* the entries other than the one of hId, and the outer flags, are as in hC
FrameKept ==
  /\ (DOMAIN hR.value) \ {HKey} = (DOMAIN hC.value) \ {HKey}
  /\ \A j \in (DOMAIN hC.value) \ {HKey} : hR.value[j] = hC.value[j]
  /\ hR.loading = hC.loading
  /\ hR.error = hC.error

-----------------------------------------------------------------------------
(* C25: for a collection C without an entry for id, updateEntity(C, id, p)  *)
(* does not fail and returns a collection with a new entry for id whose     *)
(* value is p, the existing entries unchanged                               *)

C25_UpdateCreates ==
  (hOp = "updateEntity" /\ HKey \notin DOMAIN hC.value) =>
    /\ hR # Thrown
    /\ HKey \in DOMAIN hR.value
    /\ hR.value[HKey].value = hUpd
    /\ FrameKept

-----------------------------------------------------------------------------
(* C26: removeEntity is total and idempotent: it never fails, removing k    *)
(* from its own result changes nothing, removing an absent key returns a    *)
(* collection equal to C, and entries other than k and the outer flags are  *)
(* never changed                                                            *)

C26_RemoveIdempotent ==
  hOp = "removeEntity" =>
    /\ hR # Thrown
    /\ HKey \notin DOMAIN hR.value
    /\ removeEntity(hR, hId) = hR
    /\ HKey \notin DOMAIN hC.value => hR = hC
    /\ FrameKept

\* entity 1 was removed from a collection of two entities
C26_Witness ==
  /\ hOp = "removeEntity"
  /\ hId = Num(1)
  /\ DOMAIN hC.value = {"1", "2"}
  /\ DOMAIN hR.value = {"2"}

-----------------------------------------------------------------------------
(* C30: setCollectionLoading sets the outer loading and clears the outer    *)
(* error, leaving the entries as they are; setEntityLoading(C, id) does so  *)
(* for entry id alone, which it creates when absent and whose value it      *)
(* keeps when present                                                       *)

C30_LoadingSetters ==
  /\ hOp = "setCollectionLoading" =>
       /\ hR.loading = Bool(TRUE)
       /\ hR.error = Bool(FALSE)
       /\ hR.value = hC.value
       /\ DOMAIN hR = DOMAIN hC
  /\ hOp = "setEntityLoading" =>
       /\ hR # Thrown
       /\ HKey \in DOMAIN hR.value
       /\ hR.value[HKey].loading = Bool(TRUE)
       /\ hR.value[HKey].error = Bool(FALSE)
       /\ HKey \in DOMAIN hC.value =>
            /\ DOMAIN hR.value[HKey] = DOMAIN hC.value[HKey]
            /\ hR.value[HKey].value = hC.value[HKey].value
       /\ FrameKept

\* an entry that held an error is loading again, with its value
C30_Witness ==
  /\ hOp = "setEntityLoading"
  /\ hId = Num(2)
  /\ DOMAIN hC.value = {"1", "2"}
  /\ hC.value["2"].error = Bool(TRUE)
  /\ hR.value["2"] = [value |-> ServiceTodo(2, FALSE), loading |-> Bool(TRUE), error |-> Bool(FALSE)]

-----------------------------------------------------------------------------
(* C27: an assignment to a property of the actions object throws at once    *)
(* and changes no action stream and no loading, complete or error signal    *)

C27_AssignThrows ==
  [][(aCalls' = aCalls + 1 /\ aLast'.op = "set") =>
       /\ aLast'.n \in aLast'.threw
       /\ aActs' = aActs
       /\ \A k \in DOMAIN aLog' : aLog'[k].sig = "throw"]_vars

\* an assignment was made while load was subscribed and loading
C27_Witness ==
  /\ aLast.op = "set"
  /\ aLast.n = "load"
  /\ aActs["load"].subs
  /\ aActs["load"].loading
  /\ aLog = <<Ev("load", "throw", Str("Error"))>>

-----------------------------------------------------------------------------
(* C22: the two status levels are kept apart: the outcome of a request for  *)
(* one entity leaves the collection's loading and error as they were, and   *)
(* the outcome of a request for the list leaves the loading and error of    *)
(* every entry as they were                                                 *)

EntityOutcomes == {"fetchTodoResolved", "fetchTodoRejected"}

CollectionOutcomes == {"fetchTodosResolved", "fetchTodosRejected"}

InnerFlags(todos, k) ==
  <<Get(Get(Get(todos, "value"), k), "loading"), Get(Get(Get(todos, "value"), k), "error")>>

C22_LevelsApart ==
  [][/\ gLast'.op \in EntityOutcomes =>
          /\ Get(TodosOf(gState'), "loading") = Get(TodosOf(gState), "loading")
          /\ Get(TodosOf(gState'), "error") = Get(TodosOf(gState), "error")
     /\ gLast'.op \in CollectionOutcomes =>
          \A k \in DOMAIN Props(Get(TodosOf(gState), "value")) :
            InnerFlags(TodosOf(gState'), k) = InnerFlags(TodosOf(gState), k)]_vars

-----------------------------------------------------------------------------
(* C31: the error setters record the supplied cause: after
   setCollectionError(C, err) the outer loading is false and the outer error
   is err; after setEntityError(C, id, err) the entry of id has loading false,
   error err and its value; nothing else in the collection changes. *)

OthersKept ==
  \A k \in DOMAIN Props(hC.value) \ {HKey} :
    k \in DOMAIN Props(hR.value) /\ hR.value[k] = hC.value[k]

C31_SettersRecordCause ==
  /\ hOp = "setCollectionError" =>
       /\ hR # Thrown
       /\ Get(hR, "loading") = Bool(FALSE)
       /\ Get(hR, "error") = hErr
       /\ Get(hR, "value") = hC.value
  /\ hOp = "setEntityError" =>
       /\ hR # Thrown
       /\ Get(Get(hR.value, HKey), "loading") = Bool(FALSE)
       /\ Get(Get(hR.value, HKey), "error") = hErr
       /\ Get(Get(hR.value, HKey), "value") = Get(Get(hC.value, HKey), "value")
       /\ OthersKept
       /\ Get(hR, "loading") = hC.loading
       /\ Get(hR, "error") = hC.error

-----------------------------------------------------------------------------
(* C32: for two partials whose entity key sets are disjoint, merging them
   into a collection C in either order gives the same entity mapping:
   mergeEntityContext(mergeEntityContext(C, P1), P2).value equals
   mergeEntityContext(mergeEntityContext(C, P2), P1).value. *)

DisjointKeys == PartialKeys(mP) \cap PartialKeys(mP2) = {}

C32_CommutesOnDisjointKeys ==
  (mOp = "bothOrders" /\ DisjointKeys) =>
    Get(mR.first, "value") = Get(mR.second, "value")

\* both partials name an entity, the keys differ, and both entries are stored
C32_Witness ==
  /\ mOp = "bothOrders"
  /\ DisjointKeys
  /\ IsObject(Get(mP, "value")) /\ IsObject(Get(mP2, "value"))
  /\ PartialKeys(mP) # {} /\ PartialKeys(mP2) # {}
  /\ PartialKeys(mP) \cup PartialKeys(mP2) \subseteq DOMAIN Props(Get(mR.first, "value"))
  /\ mC.value # EmptyObj
  /\ Get(mR.first, "value") = Get(mR.second, "value")

-----------------------------------------------------------------------------
(* C33: when fetchTodo and updateTodo for the same id are in flight at the
   same time, then in whichever order they settle, the entry stored for the
   id after the second settlement is the one made from the result that
   settled last, and the settlement raises no error. *)

FetchSettlements == {"fetchTodoResolved", "fetchTodoRejected"}

UpdateSettlements == {"updateTodoResolved", "updateTodoRejected"}

\* the entry that withContextResponse or withContextError makes from a result
EntryOfResult(last) ==
  IF last.op \in {"fetchTodoResolved", "updateTodoResolved"}
    THEN Entry(last.todo, FALSE, Null)
    ELSE Entry(Null, FALSE, last.message)

\* the step settles the second of two requests for one id that were in flight
\* together: the first of them settled in the event before
SecondSettles ==
  \/ /\ gLast.op \in FetchSettlements /\ gUpd # Undefined /\ gUpd.id.str = gLast.id
     /\ gLast'.op \in UpdateSettlements
  \/ /\ gLast.op \in UpdateSettlements /\ gOne # Undefined /\ gOne.str = gLast.id
     /\ gLast'.op \in FetchSettlements

C33_LastWriteWins ==
  [][SecondSettles =>
       /\ gState' # Thrown
       /\ Get(Get(TodosOf(gState'), "value"), gLast'.id) = EntryOfResult(gLast')]_vars

-----------------------------------------------------------------------------
(* C34: a subscription to withLoadingEmission(flag) over a producer that
   ends with an error observes {flag:true} first, and {flag:false} as the
   last element before the stream closes. *)

C34_BracketOnError ==
  \A i \in DOMAIN eSubs :
    eSubs[i].st = "errored" =>
      LET out == eSubs[i].out
      IN /\ Len(out) >= 3
         /\ out[1] = C10_Marker(TRUE)
         /\ out[Len(out) - 1] = C10_Marker(FALSE)
         /\ out[Len(out)].kind \in {"error", "complete"}

-----------------------------------------------------------------------------
(* C35: when a fetchTodo(id) or updateTodo request succeeds on a todos
   collection that holds entities with keys K, the collection then holds
   entries for K and id: the entry of id carries the returned todo with
   loading = false, and every other entry is unchanged. *)

EntitySuccesses == {"fetchTodoResolved", "updateTodoResolved"}

MappingOf(state) == Props(Get(TodosOf(state), "value"))

C35_SuccessKeepsOthers ==
  [][gLast'.op \in EntitySuccesses =>
       /\ gLast'.id \in DOMAIN MappingOf(gState')
       /\ MappingOf(gState')[gLast'.id] = Entry(gLast'.todo, FALSE, Null)
       /\ \A k \in (DOMAIN MappingOf(gState)) \ {gLast'.id} :
            k \in DOMAIN MappingOf(gState') /\ MappingOf(gState')[k] = MappingOf(gState)[k]]_vars

-----------------------------------------------------------------------------
(* C36: from the start of a fetchTodos request until it settles the
   collection-level flag todos.loading is true, and it is false once the
   request has settled, with the list or with an error. *)

C36_LoadingWhileFetching ==
  /\ gInflight > 0 => Get(TodosOf(gState), "loading") = Bool(TRUE)
  /\ gLast.op \in CollectionOutcomes => Get(TodosOf(gState), "loading") = Bool(FALSE)

-----------------------------------------------------------------------------
(* C37: in every reachable state every key of todos.value is the id of a
   todo the fetch interface returned, and its entry is a context value
   around that todo: loading markers and list positions are never keys of
   the entity mapping. *)

\* the todos the fetch interface can return for a key
TodosOfKey(k) == {Todo(k, n) : n \in Names} \cup {Updated([id |-> Str(k), done |-> Bool(TRUE)])}

IsContextOf(entry, k) ==
  /\ IsObject(entry)
  /\ {"value", "loading", "error"} \subseteq DOMAIN entry
  /\ entry.value \in TodosOfKey(k) \cup {Null}

C37_KeysAreEntityIds ==
  \A k \in DOMAIN MappingOf(gState) :
    /\ k \in Keys
    /\ IsContextOf(MappingOf(gState)[k], k)

-----------------------------------------------------------------------------
(* C38: in TodosStateService an entity leaves the collection only after its
   delete request has succeeded: while the request is in flight the entry is
   still there, and after the request has failed the entry is there with its
   value as before, with its error set and loading = false. *)

RemovedKey == ToStr(sLast.id)

C38_RemoveAfterSuccess ==
  /\ (sLast.op = "remove" /\ RemovedKey \in KeysOf(sSnap)) =>
       RemovedKey \in KeysOf(TodosIn(sSvc))
  /\ (sLast.op = "removeRejected" /\ sClean /\ RemovedKey \in KeysOf(sSnap)) =>
       /\ RemovedKey \in KeysOf(TodosIn(sSvc))
       /\ Get(TodosIn(sSvc).value[RemovedKey], "value") = Get(sSnap.value[RemovedKey], "value")
       /\ Truthy(Get(TodosIn(sSvc).value[RemovedKey], "error"))
       /\ Get(TodosIn(sSvc).value[RemovedKey], "loading") = Bool(FALSE)

-----------------------------------------------------------------------------
(* C39: for each dispatch of an action that has a registered transform, the
   transform is invoked exactly once, on the payload of the call, whether or
   not the action's value stream has been accessed. *)

C39_TransformOnce ==
  [][(aCalls' = aCalls + 1 /\ aLast'.op = "dispatch" /\ aLast'.n \in transformsMap
        /\ aLog' # <<Ev(aLast'.n, "throw", TypeErr)>>) =>
       aLast'.transforms = <<PayloadOf(aLast'.args)>>]_vars

-----------------------------------------------------------------------------
(* C40: for every declared action name n, the property n yields n's
   dispatch function, n$ yields n's value stream, and nLoading$, nComplete$
   and nError$ yield n's own signals; this holds for names that begin with
   "on" and for names that end with "Loading", "Complete" or "Error" too. *)

C40_AccessorsByName ==
  pOp = "get" => pR = [kind |-> pKind, action |-> pName]

====
